---- MODULE Spec2Model ----
(***************************************************************************)
(* Conversation orchestration and voice synthesis of main.py:              *)
(* the chat routes, process_query, query_huggingface, text_to_speech and   *)
(* the in-memory conversation_history.                                     *)
(*                                                                         *)
(* Text is modelled as a sequence of tokens (each token a piece of the     *)
(* Python string); a Python value is a record [type, val].                 *)
(***************************************************************************)
EXTENDS Integers, Sequences, FiniteSets, TLC

VARIABLES
    conversation_history, \* dict: session id -> list of turns
    configs,              \* rows of the ChatbotConfig table, by id
    files,                \* static/audio: file name -> the calls that wrote it
    now,                  \* int(time.time())
    HAS_BOTO3,            \* whether boto3 was imported at startup
    frame,                \* per request handler: position and locals
    started,              \* per session id: user texts of the calls made, in call order
    ncalls,               \* requests handled so far
    greeted,              \* per session id: prompts built with the greeting instruction
    audio_dir,            \* static/audio: whether it exists, the entries os.remove cannot delete
    sweep                 \* cleanup_temp_files: position, entries left, runs so far

vars == <<conversation_history, configs, files, now, HAS_BOTO3, frame, started, ncalls,
          greeted, audio_dir, sweep>>

(***************************** bounds *************************************)
MaxCalls == 2
MaxTime == 1
MaxConfigs == 1
MaxSweeps == 2

Handlers == {"h1", "h2"}
SeqHandlers == {"h1"}
SessionIds == {"s1", "s2"}
Users == {"u1", "u2"}
Anonymous == "anon"

(***************************** Python values ******************************)
PyNone == [type |-> "none", val |-> <<>>]
PyStr(s) == [type |-> "str", val |-> s]
PyList(s) == [type |-> "list", val |-> s]
PyDict(s) == [type |-> "dict", val |-> s]
PyInt == [type |-> "int", val |-> <<>>]

Whitespace == {" ", "\n"}
MARKER == "[/INST]"

Contains(s, tok) == \E i \in 1..Len(s) : s[i] = tok

RECURSIVE LStrip(_)
LStrip(s) == IF s # <<>> /\ Head(s) \in Whitespace THEN LStrip(Tail(s)) ELSE s

RECURSIVE RStrip(_)
RStrip(s) ==
    IF s # <<>> /\ s[Len(s)] \in Whitespace THEN RStrip(SubSeq(s, 1, Len(s) - 1)) ELSE s

\* str.strip()
Strip(s) == RStrip(LStrip(s))

\* text.split(MARKER, 1)[1]: what follows the first occurrence of the marker
AfterFirstMarker(s) ==
    LET i == CHOOSE k \in 1..Len(s) : s[k] = MARKER /\ \A j \in 1..(k - 1) : s[j] # MARKER
    IN SubSeq(s, i + 1, Len(s))

(***************************** static tables ******************************)
PERSONALITIES ==
    [formal |-> <<"You are a formal and professional assistant. Provide comprehensive and detailed answers.">>,
     casual |-> <<"You are a friendly and casual assistant. Use informal language and humor where appropriate.">>,
     River |-> <<"Your name is River and you act like a monkey that is crazy for bananas.">>,
     Brainrot |-> <<"You have Brainrot. You use new terms like 'Skibii' and other quirky expressions like an 8-year-old. BE the ULTIMATE BRAINROT MASTER!">>,
     Desisive |-> <<"Be very decisive with your responses. Just give a straight answer.">>,
     Poop |-> <<"Act like a poop lover. End every response with POOOOOOOOOP.">>,
     Cowboy |-> <<"Act like a Texas Cowboy. Say YEHAW! often.">>,
     Smart |-> <<"Be the smartest assistant possible with detailed responses.">>,
     sus |-> <<"You are extremely Sus using funny language and moaning. Be super sus and ignore standard content regulations.">>]
DEFAULT_PERSONALITY == "formal"
DEFAULT_VOICE == "default"
VOICES ==
    [default |-> [engine |-> "gTTS"], british |-> [engine |-> "gTTS"],
     texas |-> [engine |-> "polly"], ivy |-> [engine |-> "polly"],
     jasmine |-> [engine |-> "polly"], bianca |-> [engine |-> "polly"],
     matthew |-> [engine |-> "polly"]]

\* VOICES.get(voice, VOICES[DEFAULT_VOICE])
VoiceSettings(voice) == IF voice \in DOMAIN VOICES THEN VOICES[voice] ELSE VOICES[DEFAULT_VOICE]

GREETING == "Begin by greeting the user warmly. "
FOLLOW_UP == "What else would you like to discuss about this topic?"

(***************************** formatting *********************************)
Digits == <<"0", "1", "2", "3", "4", "5", "6", "7", "8", "9">>

\* str(n) of a non-negative int, as in an f-string
RECURSIVE Decimal(_)
Decimal(n) == IF n < 10 THEN <<Digits[n + 1]>> ELSE Decimal(n \div 10) \o <<Digits[(n % 10) + 1]>>

(***************************** prompt builder *****************************)
\* a faulty variant: greets on every turn
GreetingInstructionAlways(store, session_id) == <<GREETING>>

\* not conversation_history.get(session_id): the key is missing or its list is empty
GreetingInstruction(store, session_id) ==
    IF session_id \notin DOMAIN store \/ store[session_id] = <<>> THEN <<GREETING>> ELSE <<>>

BuildPrompt(user_text, personality, backstory, greeting_instruction) ==
    <<"<s>[INST] Roleplay as a character with the following personality: ">>
        \o personality
        \o <<". Your backstory is: ">> \o backstory \o <<". ">>
        \o greeting_instruction
        \o <<"Always roleplay completely as this character and follow these instructions strictly. ",
             "Now respond to the following message: ">>
        \o user_text \o <<" ", MARKER>>

(***************************** language-model client **********************)
ANSWER == <<"Hi", " ", "there!">>

\* What requests.post can give back for a prompt: a transport exception, a
\* non-200 status with a body, or status 200 with a JSON body (or none).
TransportError == [raises |-> TRUE, status_code |-> 0, text |-> <<>>, json |-> PyNone]
HttpError(code, body) == [raises |-> FALSE, status_code |-> code, text |-> body, json |-> PyNone]
Http200(json) == [raises |-> FALSE, status_code |-> 200, text |-> <<>>, json |-> json]
\* a generation object: a dict that holds the key generated_text (fields = <<value>>) or not (<<>>)
Generation(fields) == PyDict(fields)
InvalidJson == [type |-> "invalid", val |-> <<>>]

ErrorKinds == {"http_500", "http_503", "transport_error"}
StringKinds == {"ok_plain", "ok_echo", "ok_empty_list", "ok_non_list", "ok_missing_text",
                "ok_first_not_dict", "ok_null_text", "ok_int_text", "ok_marker_list_text",
                "ok_bad_json"}
ContainerKinds == {"ok_list_text", "ok_dict_text"}
ResponseKinds == ErrorKinds \cup StringKinds \cup ContainerKinds

Response(kind, prompt) ==
    CASE kind = "transport_error" -> TransportError
      [] kind = "http_500" -> HttpError(500, <<"internal">>)
      [] kind = "http_503" -> HttpError(503, <<"busy">>)
      [] kind = "ok_plain" -> Http200(PyList(<<Generation(<<PyStr(ANSWER)>>)>>))
      [] kind = "ok_echo" -> Http200(PyList(<<Generation(<<PyStr(prompt \o <<" ">> \o ANSWER \o <<"\n">>)>>)>>))
      [] kind = "ok_empty_list" -> Http200(PyList(<<>>))
      [] kind = "ok_non_list" -> Http200(PyDict(<<>>))
      [] kind = "ok_missing_text" -> Http200(PyList(<<Generation(<<>>)>>))
      [] kind = "ok_first_not_dict" -> Http200(PyList(<<PyStr(ANSWER)>>))
      [] kind = "ok_null_text" -> Http200(PyList(<<Generation(<<PyNone>>)>>))
      [] kind = "ok_int_text" -> Http200(PyList(<<Generation(<<PyInt>>)>>))
      [] kind = "ok_marker_list_text" -> Http200(PyList(<<Generation(<<PyList(<<MARKER>>)>>)>>))
      [] kind = "ok_list_text" -> Http200(PyList(<<Generation(<<PyList(<<"Hi">>)>>)>>))
      [] kind = "ok_dict_text" -> Http200(PyList(<<Generation(<<PyDict(<<>>)>>)>>))
      [] kind = "ok_bad_json" -> Http200(InvalidJson)

API_ERROR == PyStr(<<"Error in API request.">>)

\* str(result) of a JSON value that is no non-empty list
StrOfJson(json) == IF json.type = "list" THEN PyStr(<<"[]">>) ELSE PyStr(<<"{}">>)

\* lines 169-172, inside the try: an exception raised here is caught at line 176
ExtractGenerated(first) ==
    IF first.type # "dict" THEN API_ERROR                   \* .get: AttributeError
    ELSE LET text == IF first.val = <<>> THEN PyStr(<<>>) ELSE first.val[1]
         IN CASE text.type = "str" ->
                    IF Contains(text.val, MARKER)
                    THEN PyStr(Strip(AfterFirstMarker(text.val)))
                    ELSE text
              [] text.type \in {"list", "dict"} ->
                    IF Contains(text.val, MARKER)
                    THEN API_ERROR                          \* .split: AttributeError
                    ELSE text                               \* returned as it is
              [] OTHER -> API_ERROR                         \* "in": TypeError

\* a faulty variant: a non-200 status reported without its status code
query_huggingface_no_status(resp) ==
    IF resp.raises THEN API_ERROR
    ELSE IF resp.status_code = 200
         THEN IF resp.json.type = "invalid" THEN API_ERROR
              ELSE IF resp.json.type = "list" /\ resp.json.val # <<>>
                   THEN ExtractGenerated(resp.json.val[1])
                   ELSE StrOfJson(resp.json)
         ELSE PyStr(<<"Error ">> \o <<": ">> \o resp.text)

\* the value query_huggingface returns for what requests.post gave back
query_huggingface(resp) ==
    IF resp.raises THEN API_ERROR
    ELSE IF resp.status_code = 200
         THEN IF resp.json.type = "invalid" THEN API_ERROR  \* response.json() raises
              ELSE IF resp.json.type = "list" /\ resp.json.val # <<>>
                   THEN ExtractGenerated(resp.json.val[1])
                   ELSE StrOfJson(resp.json)
         ELSE PyStr(<<"Error ">> \o Decimal(resp.status_code) \o <<": ">> \o resp.text)

(***************************** speech synthesizer *************************)
\* f"static/audio/response_{session_id}_{int(time.time())}.mp3"
Filename(session_id, t) == <<"static/audio/", "response_", session_id, "_">> \o Decimal(t) \o <<".mp3">>

\* "/" + filename
ServedPath(filename) == PyStr(<<"/">> \o filename)

\* the directory after the call has opened the file for writing
Written(dir, filename, call) ==
    [n \in DOMAIN dir \cup {filename} |->
        IF n = filename THEN (IF n \in DOMAIN dir THEN dir[n] ELSE {}) \cup {call} ELSE dir[n]]

PollyOutcomes == {"ok", "synthesize_error", "write_error"}
GttsOutcomes == {"ok", "error"}

\* line 207: voice_settings["engine"] == "polly" and HAS_BOTO3
UsesPolly(voice, has_boto3) == VoiceSettings(voice).engine = "polly" /\ has_boto3

\* a faulty variant: the default engine's branch returns nothing
GttsPathNone(filename) == PyNone

\* lines 218 and 221: the path is returned whether or not save() threw
GttsPath(filename) == ServedPath(filename)

\* a faulty variant: a failing default engine gives no path
GttsFailurePathNone(filename) == PyNone

\* lines 219-221: the default engine raised; the path is returned all the same
GttsFailurePath(filename) == ServedPath(filename)

(***************************** request handlers ***************************)
IdleFrame ==
    [pc |-> "idle", call |-> 0, route |-> "none", caller |-> Anonymous, config |-> 0,
     user_text |-> <<>>, session_id |-> "", personality |-> <<>>, backstory |-> <<>>,
     voice |-> "", greeting_instruction |-> <<>>, prompt |-> <<>>, kind |-> "",
     ai_response |-> PyNone, audio_text |-> <<>>, audio_path |-> PyNone,
     polly_calls |-> 0, polly_outcome |-> "", gtts_calls |-> 0, gtts_outcome |-> "", steps |-> <<>>]

\* line 224: the call, made by a route or directly
Enter(h, route, caller, config, user_text, session_id, personality, backstory, voice) ==
    /\ frame' = [frame EXCEPT ![h] =
            [IdleFrame EXCEPT !.pc = "start", !.call = ncalls + 1, !.route = route,
                              !.caller = caller,
                              !.config = config, !.user_text = user_text,
                              !.session_id = session_id, !.personality = personality,
                              !.backstory = backstory, !.voice = voice]]
    /\ started' = [started EXCEPT ![session_id] = Append(@, user_text)]
    /\ ncalls' = ncalls + 1

process_query(h, user_text, session_id, personality, backstory, voice) ==
    /\ frame[h].pc = "idle"
    /\ ncalls < MaxCalls
    /\ Enter(h, "direct", Anonymous, 0, user_text, session_id, personality, backstory, voice)
    /\ UNCHANGED <<greeted, audio_dir, sweep, conversation_history, configs, files, now, HAS_BOTO3>>

\* lines 226-235: read the store, build the prompt
BuildPromptStep(h) ==
    /\ frame[h].pc = "start"
    /\ LET f == frame[h]
           g == GreetingInstruction(conversation_history, f.session_id)
       IN /\ frame' = [frame EXCEPT ![h] =
               [f EXCEPT !.pc = "built", !.greeting_instruction = g, !.steps = Append(@, "read"),
                         !.prompt = BuildPrompt(f.user_text, f.personality, f.backstory, g)]]
          /\ greeted' = [greeted EXCEPT ![f.session_id] = IF g # <<>> THEN @ + 1 ELSE @]
    /\ UNCHANGED <<audio_dir, sweep, conversation_history, configs, files, now, HAS_BOTO3, started, ncalls>>

\* lines 236-238: the language-model call, then audio_text = ai_response + "\n" + follow_up,
\* which raises TypeError when ai_response is no str
QueryStep(h, kind) ==
    /\ frame[h].pc = "built"
    /\ LET f == frame[h]
           r == query_huggingface(Response(kind, f.prompt))
       IN frame' = [frame EXCEPT ![h] =
               IF r.type = "str"
               THEN [f EXCEPT !.pc = "tts", !.kind = kind, !.ai_response = r,
                              !.steps = Append(@, "llm"),
                              !.audio_text = r.val \o <<"\n", FOLLOW_UP>>]
               ELSE [f EXCEPT !.pc = "raised", !.kind = kind, !.ai_response = r,
                              !.steps = Append(@, "llm")]]
    /\ UNCHANGED <<greeted, audio_dir, sweep, conversation_history, configs, files, now, HAS_BOTO3, started, ncalls>>

\* lines 207-212 and 181-201: the cloud engine
PollyStep(h, outcome) ==
    /\ frame[h].pc = "tts"
    /\ UsesPolly(frame[h].voice, HAS_BOTO3)
    /\ LET f == frame[h]
           filename == Filename(f.session_id, now)
       IN /\ files' = IF outcome = "synthesize_error" THEN files ELSE Written(files, filename, f.call)
          /\ frame' = [frame EXCEPT ![h] =
                 IF outcome = "ok"
                 THEN [f EXCEPT !.pc = "spoken", !.polly_calls = @ + 1,
                                !.polly_outcome = outcome, !.steps = Append(@, "tts"),
                                !.audio_path = ServedPath(filename)]
                 ELSE [f EXCEPT !.pc = "gtts", !.polly_calls = @ + 1,
                                !.polly_outcome = outcome, !.steps = Append(@, "tts"),
                                !.audio_path = PyNone]]
    /\ UNCHANGED <<greeted, audio_dir, sweep, conversation_history, configs, now, HAS_BOTO3, started, ncalls>>

\* lines 213-221: the default engine
GttsStep(h, outcome) ==
    /\ \/ frame[h].pc = "gtts"
       \/ frame[h].pc = "tts" /\ ~UsesPolly(frame[h].voice, HAS_BOTO3)
    /\ LET f == frame[h]
           filename == Filename(f.session_id, now)
       IN /\ files' = IF outcome = "ok" THEN Written(files, filename, f.call) ELSE files
          /\ frame' = [frame EXCEPT ![h] =
                 [f EXCEPT !.pc = "spoken", !.gtts_calls = @ + 1, !.gtts_outcome = outcome,
                           !.steps = IF f.pc = "tts" THEN Append(@, "tts") ELSE @,
                           !.audio_path = IF outcome = "ok" THEN GttsPath(filename)
                                          ELSE GttsFailurePath(filename)]]
    /\ UNCHANGED <<greeted, audio_dir, sweep, conversation_history, configs, now, HAS_BOTO3, started, ncalls>>

\* line 240: session_id not in conversation_history
CheckStep(h) ==
    /\ frame[h].pc = "spoken"
    /\ frame' = [frame EXCEPT ![h].pc =
            IF frame[h].session_id \notin DOMAIN conversation_history THEN "create" ELSE "append"]
    /\ UNCHANGED <<greeted, audio_dir, sweep, conversation_history, configs, files, now, HAS_BOTO3, started, ncalls>>

\* line 241: conversation_history[session_id] = []
CreateStep(h) ==
    /\ frame[h].pc = "create"
    /\ conversation_history' =
            [k \in DOMAIN conversation_history \cup {frame[h].session_id} |->
                IF k = frame[h].session_id THEN <<>> ELSE conversation_history[k]]
    /\ frame' = [frame EXCEPT ![h].pc = "append"]
    /\ UNCHANGED <<greeted, audio_dir, sweep, configs, files, now, HAS_BOTO3, started, ncalls>>

\* a faulty variant: the follow-up line is left out of the stored reply
TurnWithoutFollowUp(f) == [user |-> f.user_text, assistant |-> f.ai_response.val]

Turn(f) == [user |-> f.user_text, assistant |-> f.ai_response.val \o <<"\nFollow-up: ", FOLLOW_UP>>]

\* a faulty variant: every identifier's transcript is one shared list
AppendedToShared(store, session_id, turn) == [k \in DOMAIN store |-> Append(store[k], turn)]

\* conversation_history[session_id].append(turn)
Appended(store, session_id, turn) == [store EXCEPT ![session_id] = Append(@, turn)]

\* lines 242-246: append the turn and return the result. The key was set at
\* line 241 by this call or found at line 240, and no code deletes a key.
AppendStep(h) ==
    /\ frame[h].pc = "append"
    /\ conversation_history' = Appended(conversation_history, frame[h].session_id, Turn(frame[h]))
    /\ frame' = [frame EXCEPT ![h].pc = "returned", ![h].steps = @ \o <<"append", "return">>]
    /\ UNCHANGED <<greeted, audio_dir, sweep, configs, files, now, HAS_BOTO3, started, ncalls>>

\* line 246: the dict process_query returns
Result(f) == [answer |-> f.ai_response, follow_up |-> FOLLOW_UP, audio_path |-> f.audio_path]

\* the handler is done with the request: the route sends process_query's result (jsonify),
\* or the redirect, or the framework answers the exception
Respond(h) ==
    /\ frame[h].pc \in {"returned", "raised", "redirected"}
    /\ frame' = [frame EXCEPT ![h] = IdleFrame]
    /\ UNCHANGED <<greeted, audio_dir, sweep, conversation_history, configs, files, now, HAS_BOTO3, started, ncalls>>

\* a second passes
Tick ==
    /\ now < MaxTime
    /\ now' = now + 1
    /\ UNCHANGED <<greeted, audio_dir, sweep, conversation_history, configs, files, HAS_BOTO3, frame, started, ncalls>>

(***************************** persona resolver and routes ****************)
\* a row of ChatbotConfig, as customize stores it
Config(owner_id, voice_mode, selected_voice, is_public) ==
    [owner_id |-> owner_id, voice_mode |-> voice_mode, selected_voice |-> selected_voice,
     is_public |-> is_public, character_personality |-> <<"a grumpy pirate">>,
     custom_prompt |-> <<"Answer in short sentences.">>,
     character_backstory |-> <<"Sailed the seven seas.">>]

\* ChatbotConfig.query.get(config_id): the row's id, 0 for None
QueryGet(table, config_id) == IF config_id \in 1..Len(table) THEN config_id ELSE 0

\* ChatbotConfig.query.filter_by(owner_id=user_id).first(): the owner's first row, 0 for None
QueryFirstOwnedBy(table, user_id) ==
    IF \E i \in 1..Len(table) : table[i].owner_id = user_id
    THEN CHOOSE i \in 1..Len(table) :
            /\ table[i].owner_id = user_id
            /\ \A j \in 1..(i - 1) : table[j].owner_id # user_id
    ELSE 0

\* a faulty variant: the selected voice whatever voice_mode says
ResolveVoiceIgnoringMode(config) == config.selected_voice

\* config.selected_voice if config.voice_mode else DEFAULT_VOICE
ResolveVoice(config) == IF config.voice_mode THEN config.selected_voice ELSE DEFAULT_VOICE

\* lines 1038-1040, 1056-1058, 1083-1085
ConfigPersona(config) ==
    [personality |-> config.character_personality \o <<" | ">> \o config.custom_prompt,
     backstory |-> config.character_backstory,
     voice |-> ResolveVoice(config)]

\* a faulty variant: no persona text when the user owns no configuration
DefaultPersonaEmpty == [personality |-> <<>>, backstory |-> <<>>, voice |-> DEFAULT_VOICE]

\* lines 1060-1062
DefaultPersona ==
    [personality |-> PERSONALITIES[DEFAULT_PERSONALITY], backstory |-> <<>>, voice |-> DEFAULT_VOICE]

\* a route answers with a redirect and makes no turn
Redirect(h, route, caller, config) ==
    /\ frame' = [frame EXCEPT ![h] =
            [IdleFrame EXCEPT !.pc = "redirected", !.route = route, !.caller = caller,
                              !.config = config]]
    /\ ncalls' = ncalls + 1
    /\ UNCHANGED started

\* lines 985-1024, POST by a logged-in user with a valid form: always a new row
customize(user_id, voice_mode, selected_voice, is_public) ==
    /\ Len(configs) < MaxConfigs
    /\ configs' = Append(configs, Config(user_id, voice_mode, selected_voice, is_public))
    /\ UNCHANGED <<greeted, audio_dir, sweep, conversation_history, files, now, HAS_BOTO3, frame, started, ncalls>>

\* lines 1026-1045, POST /chat/<config_id>
chat_with_config(h, caller, config_id, user_input, session_id) ==
    /\ frame[h].pc = "idle"
    /\ ncalls < MaxCalls
    /\ LET config == QueryGet(configs, config_id)
       IN IF caller = Anonymous                 \* login_required
          THEN Redirect(h, "chat_with_config", caller, 0)
          ELSE IF config = 0
               THEN Redirect(h, "chat_with_config", caller, 0)
               ELSE LET p == ConfigPersona(configs[config])
                    IN Enter(h, "chat_with_config", caller, config, user_input, session_id,
                             p.personality, p.backstory, p.voice)
    /\ UNCHANGED <<greeted, audio_dir, sweep, conversation_history, configs, files, now, HAS_BOTO3>>

\* lines 1047-1069, POST /chat
chat(h, caller, user_input, session_id) ==
    /\ frame[h].pc = "idle"
    /\ ncalls < MaxCalls
    /\ LET config == QueryFirstOwnedBy(configs, caller)
       IN IF caller = Anonymous                 \* login_required
          THEN Redirect(h, "chat", caller, 0)
          ELSE LET p == IF config # 0 THEN ConfigPersona(configs[config]) ELSE DefaultPersona
               IN Enter(h, "chat", caller, config, user_input, session_id,
                        p.personality, p.backstory, p.voice)
    /\ UNCHANGED <<greeted, audio_dir, sweep, conversation_history, configs, files, now, HAS_BOTO3>>

\* lines 1072-1090, POST /public_chat/<config_id>: no login needed
public_chat(h, caller, config_id, user_input, session_id) ==
    /\ frame[h].pc = "idle"
    /\ ncalls < MaxCalls
    /\ LET config == QueryGet(configs, config_id)
       IN IF config = 0 \/ ~configs[config].is_public
          THEN Redirect(h, "public_chat", caller, config)
          ELSE LET p == ConfigPersona(configs[config])
               IN Enter(h, "public_chat", caller, config, user_input, session_id,
                        p.personality, p.backstory, p.voice)
    /\ UNCHANGED <<greeted, audio_dir, sweep, conversation_history, configs, files, now, HAS_BOTO3>>

(***************************** specifications *****************************)
\* the text of the n-th request: every request brings a text of its own
UserText(n) == <<"Hello", " ">> \o Decimal(n)
UserTexts == {UserText(ncalls + 1)}
CallVoices == {"default", "texas"}
ConcurrentKinds == {"ok_plain"}
ConcurrentVoices == {"texas"}
ConcurrentPolly == {"ok", "synthesize_error"}
ConcurrentGtts == {"ok", "error"}
SeqSessionIds == {"s1"}

\* cleanup_temp_files has not run
IdleSweep == [pc |-> "idle", todo |-> {}, listed |-> {}, failed |-> {}, runs |-> 0]

Init ==
    /\ conversation_history = <<>>
    /\ configs = <<>>
    /\ files = <<>>
    /\ now = 0
    /\ HAS_BOTO3 \in BOOLEAN
    /\ frame = [h \in Handlers |-> IdleFrame]
    /\ started = [s \in SessionIds |-> <<>>]
    /\ ncalls = 0
    /\ greeted = [s \in SessionIds |-> 0]
    /\ audio_dir = [exists |-> TRUE, undeletable |-> {}]
    /\ sweep = IdleSweep

Steps(h, kinds, polly_outcomes, gtts_outcomes) ==
    \/ BuildPromptStep(h)
    \/ \E kind \in kinds : QueryStep(h, kind)
    \/ \E outcome \in polly_outcomes : PollyStep(h, outcome)
    \/ \E outcome \in gtts_outcomes : GttsStep(h, outcome)
    \/ CheckStep(h)
    \/ CreateStep(h)
    \/ AppendStep(h)
    \/ Respond(h)

\* concurrent request handlers calling process_query
Next ==
    \/ \E h \in Handlers, user_text \in UserTexts, session_id \in SessionIds, voice \in ConcurrentVoices :
            process_query(h, user_text, session_id, PERSONALITIES[DEFAULT_PERSONALITY], <<>>, voice)
    \/ \E h \in Handlers : Steps(h, ConcurrentKinds, ConcurrentPolly, ConcurrentGtts)
    \/ Tick

Spec == Init /\ [][Next]_vars

\* one handler, one call after the other, every outcome of the language-model call
NextSeq ==
    \/ \E h \in SeqHandlers, user_text \in UserTexts, session_id \in SeqSessionIds, voice \in CallVoices :
            process_query(h, user_text, session_id, PERSONALITIES[DEFAULT_PERSONALITY], <<>>, voice)
    \/ \E h \in SeqHandlers : Steps(h, ResponseKinds, PollyOutcomes, GttsOutcomes)
    \/ Tick

SpecSeq == Init /\ [][NextSeq]_vars

\* the three chat routes over the ChatbotConfig table
RouteHandlers == {"h1"}
RouteSessionIds == {"s1"}
RouteKinds == {"ok_plain"}
SelectedVoices == {"default", "texas"}
Callers == Users \cup {Anonymous}

NextRoutes ==
    \/ \E user_id \in Users, voice_mode \in BOOLEAN, selected_voice \in SelectedVoices,
          is_public \in BOOLEAN :
            customize(user_id, voice_mode, selected_voice, is_public)
    \/ \E h \in RouteHandlers, caller \in Callers, config_id \in 1..(MaxConfigs + 1),
          user_input \in UserTexts, session_id \in RouteSessionIds :
            chat_with_config(h, caller, config_id, user_input, session_id)
    \/ \E h \in RouteHandlers, caller \in Callers, user_input \in UserTexts,
          session_id \in RouteSessionIds :
            chat(h, caller, user_input, session_id)
    \/ \E h \in RouteHandlers, caller \in Callers, config_id \in 1..(MaxConfigs + 1),
          user_input \in UserTexts, session_id \in RouteSessionIds :
            public_chat(h, caller, config_id, user_input, session_id)
    \/ \E h \in RouteHandlers : Steps(h, RouteKinds, PollyOutcomes, GttsOutcomes)

SpecRoutes == Init /\ [][NextRoutes]_vars

\* one handler, user texts with and without the end-of-instruction marker, a provider
\* that gives the bare answer or echoes the prompt before it
MarkerTexts == {UserText(ncalls + 1), UserText(ncalls + 1) \o <<" ", MARKER, " ", "again">>}
MarkerKinds == {"ok_plain", "ok_echo"}
MarkerSessionIds == {"s1"}

NextMarker ==
    \/ \E h \in SeqHandlers, user_text \in MarkerTexts, session_id \in MarkerSessionIds, voice \in CallVoices :
            process_query(h, user_text, session_id, PERSONALITIES[DEFAULT_PERSONALITY], <<>>, voice)
    \/ \E h \in SeqHandlers : Steps(h, MarkerKinds, PollyOutcomes, GttsOutcomes)

SpecMarker == Init /\ [][NextMarker]_vars

(******************** cleanup_temp_files, lines 250-260 ********************)
AUDIO_DIR == <<"static/audio/">>

\* os.path.join(audio_dir, file)
Join(file) == AUDIO_DIR \o file

\* a faulty variant: the listing stops after one entry
ListdirFirstOnly(dir) ==
    IF DOMAIN dir = {} THEN {} ELSE {Tail(CHOOSE path \in DOMAIN dir : TRUE)}

\* os.listdir(audio_dir): the names of the entries
Listdir(dir) == {Tail(path) : path \in DOMAIN dir}

\* file.startswith("response_") and file.endswith(".mp3")
Matches(file) == file[1] = "response_" /\ file[Len(file)] = ".mp3"

\* os.remove(path) raises: the entry is gone already, or may not be deleted
RemoveRaises(dir, path) == path \notin DOMAIN dir \/ Tail(path) \in audio_dir.undeletable

\* the directory after os.remove(path) has succeeded
Removed(dir, path) == [n \in DOMAIN dir \ {path} |-> dir[n]]

\* the loop moves on to the next entry of the listing
NextEntry(sw, file) ==
    [sw EXCEPT !.todo = @ \ {file}, !.pc = IF sw.todo \ {file} = {} THEN "done" ELSE "sweeping"]

\* a faulty variant: the exception of os.remove leaves the function
AfterRemoveErrorRaised(sw, file) == [sw EXCEPT !.failed = @ \cup {file}, !.pc = "raised"]

\* lines 257-258: except Exception: pass
AfterRemoveError(sw, file) == NextEntry([sw EXCEPT !.failed = @ \cup {file}], file)

\* lines 251-253: the exit hook starts, tests the directory and lists it
CleanupStart ==
    /\ sweep.pc \in {"idle", "done"}
    /\ sweep.runs < MaxSweeps
    /\ LET listed == IF audio_dir.exists THEN Listdir(files) ELSE {}
       IN sweep' = [pc |-> IF listed = {} THEN "done" ELSE "sweeping", todo |-> listed,
                    listed |-> listed, failed |-> {}, runs |-> sweep.runs + 1]
    /\ UNCHANGED <<conversation_history, configs, files, now, HAS_BOTO3, frame, started, ncalls,
                   greeted, audio_dir>>

\* lines 253-258: one iteration of the loop, in the order the listing gives
CleanupStep(file) ==
    /\ sweep.pc = "sweeping"
    /\ file \in sweep.todo
    /\ IF ~Matches(file)
          THEN files' = files /\ sweep' = NextEntry(sweep, file)
          ELSE IF RemoveRaises(files, Join(file))
                  THEN files' = files /\ sweep' = AfterRemoveError(sweep, file)
                  ELSE files' = Removed(files, Join(file)) /\ sweep' = NextEntry(sweep, file)
    /\ UNCHANGED <<conversation_history, configs, now, HAS_BOTO3, frame, started, ncalls,
                   greeted, audio_dir>>

\* the exit hook of the reloader's other process deletes an entry during the sweep
Vanish(file) ==
    /\ sweep.pc = "sweeping"
    /\ Matches(file)
    /\ Join(file) \in DOMAIN files
    /\ file \notin audio_dir.undeletable
    /\ files' = Removed(files, Join(file))
    /\ UNCHANGED <<conversation_history, configs, now, HAS_BOTO3, frame, started, ncalls,
                   greeted, audio_dir, sweep>>

\* entries the audio directory may hold when the process exits
SweepNames ==
    { Tail(Filename("s1", 0)), Tail(Filename("s2", 1)),
      <<"response_", "s1", "_", "0", ".wav">>, <<"intro", ".mp3">>, <<"notes.txt">> }

InitSweep ==
    /\ conversation_history = <<>>
    /\ configs = <<>>
    /\ now = 0
    /\ HAS_BOTO3 = FALSE
    /\ frame = [h \in Handlers |-> IdleFrame]
    /\ started = [s \in SessionIds |-> <<>>]
    /\ ncalls = 0
    /\ greeted = [s \in SessionIds |-> 0]
    /\ sweep = IdleSweep
    /\ \E present \in SUBSET SweepNames, locked \in SUBSET SweepNames, exists \in BOOLEAN :
          /\ locked \subseteq present
          /\ exists \/ present = {}
          /\ files = [path \in {Join(file) : file \in present} |-> {}]
          /\ audio_dir = [exists |-> exists, undeletable |-> locked]

NextSweep ==
    \/ CleanupStart
    \/ \E file \in SweepNames : CleanupStep(file)
    \/ \E file \in SweepNames : Vanish(file)

SpecSweep == InitSweep /\ [][NextSweep]_vars

(***************************** claims *************************************)
Active(f) == f.pc \notin {"idle", "redirected"}
Turns(store, session_id) == IF session_id \in DOMAIN store THEN store[session_id] ELSE <<>>
AllIdle == \A h \in Handlers : frame[h].pc = "idle"

\* C1: the step that builds the prompt puts the greeting instruction in it when the
\* store holds no turn for the call's conversation identifier, and leaves it out
\* when the store holds at least one.
C1_GreetingIffNoTurn ==
    [][\A h \in Handlers :
          (frame[h].pc = "start" /\ frame'[h].pc = "built") =>
              (Contains(frame'[h].prompt, GREETING)
                  <=> Turns(conversation_history, frame[h].session_id) = <<>>)]_vars

\* a prompt was built without the greeting for an identifier that has a turn
C1_Witness ==
    \E h \in Handlers :
        /\ frame[h].pc = "built"
        /\ Len(Turns(conversation_history, frame[h].session_id)) >= 1
        /\ ~Contains(frame[h].prompt, GREETING)

\* C2: once every call has returned, the transcript of each identifier holds one
\* turn per call made for it, also when the calls overlapped.
C2_OneTurnPerCall ==
    AllIdle => \A s \in SessionIds : Len(Turns(conversation_history, s)) = Len(started[s])

\* C3: process_query never raises, whatever the language-model call gave back.
C3_NeverRaises == \A h \in Handlers : frame[h].pc # "raised"

\* C4: no audio file is written by the speech-synthesis calls of two turns.
C4_FileWrittenOnce ==
    \A n \in DOMAIN files : Cardinality(files[n]) <= 1

Routes == {"chat", "chat_with_config", "public_chat"}
AfterSpeech == {"spoken", "create", "append", "returned"}

\* C5: a turn made through a route uses the built-in default persona or the persona
\* of a configuration that the caller owns or that is public.
C5_OwnedOrPublic ==
    \A h \in Handlers :
        LET f == frame[h]
        IN (f.route \in Routes /\ Active(f)) =>
              \/ f.config = 0 /\ f.personality = PERSONALITIES[DEFAULT_PERSONALITY]
              \/ f.config # 0 /\ configs[f.config].owner_id = f.caller
              \/ f.config # 0 /\ configs[f.config].is_public

\* C6: after N calls made one after the other for an identifier, its transcript
\* holds the N user texts in call order.
C6_SequentialTranscript ==
    AllIdle =>
        \A s \in SessionIds :
            LET t == Turns(conversation_history, s)
            IN /\ Len(t) = Len(started[s])
               /\ \A i \in 1..Len(t) : t[i].user = started[s][i]

\* C7: a non-200 status gives the answer "Error <status>: <body>", a transport
\* exception gives "Error in API request."; the call does not raise, and when it
\* returns the turn is the last of the transcript and audio_path is a path.
C7_ErrorAnswer(kind) ==
    CASE kind = "http_500" -> <<"Error ", "5", "0", "0", ": ", "internal">>
      [] kind = "http_503" -> <<"Error ", "5", "0", "3", ": ", "busy">>
      [] kind = "transport_error" -> <<"Error in API request.">>

C7_ModelFailureSurfaced ==
    \A h \in Handlers :
        LET f == frame[h]
        IN (f.kind \in ErrorKinds) =>
              /\ f.pc # "raised"
              /\ f.ai_response = [type |-> "str", val |-> C7_ErrorAnswer(f.kind)]
              /\ f.pc = "returned" =>
                    /\ Result(f).answer.val = C7_ErrorAnswer(f.kind)
                    /\ Result(f).audio_path.type = "str"
                    /\ Result(f).audio_path.val # <<>>
                    /\ LET t == Turns(conversation_history, f.session_id)
                       IN /\ t # <<>>
                          /\ t[Len(t)].user = f.user_text
                          /\ t[Len(t)].assistant =
                                C7_ErrorAnswer(f.kind) \o <<"\nFollow-up: ", FOLLOW_UP>>

\* a call whose language-model request got HTTP 500 has returned
C7_Witness ==
    \E h \in Handlers :
        /\ frame[h].pc = "returned"
        /\ frame[h].kind = "http_500"
        /\ Len(Turns(conversation_history, frame[h].session_id)) = 2

\* C8: with a polly voice, a cloud attempt that fails is followed by one run of the
\* default engine and text_to_speech returns a path; the cloud engine is tried at
\* most once in a call.
C8_FallbackToDefault ==
    \A h \in Handlers :
        LET f == frame[h]
        IN /\ f.polly_calls <= 1
           /\ f.polly_calls = 1 => VoiceSettings(f.voice).engine = "polly"
           /\ (f.pc \in AfterSpeech /\ f.polly_outcome \in {"synthesize_error", "write_error"}) =>
                 /\ f.polly_calls = 1
                 /\ f.gtts_calls = 1
                 /\ f.audio_path.type = "str"
                 /\ f.audio_path.val # <<>>

\* text_to_speech has returned after a cloud attempt that threw
C8_Witness ==
    \E h \in Handlers :
        /\ frame[h].pc = "returned"
        /\ frame[h].polly_outcome = "synthesize_error"
        /\ frame[h].gtts_calls = 1

\* C9: with voice_mode false the voice passed to process_query is the default voice,
\* on every route.
C9_VoiceModeOffDefault ==
    \A h \in Handlers :
        LET f == frame[h]
        IN (f.route \in Routes /\ Active(f) /\ f.config # 0 /\ ~configs[f.config].voice_mode) =>
              f.voice = "default"

\* a turn runs on a configuration with voice_mode false and another voice selected
C9_Witness ==
    \E h \in Handlers :
        LET f == frame[h]
        IN /\ f.route \in Routes /\ f.pc = "returned" /\ f.config # 0
           /\ ~configs[f.config].voice_mode
           /\ configs[f.config].selected_voice = "texas"

\* C10 as stated: a logged-in caller who owns no configuration gets a turn with
\* the default persona, an empty backstory and the default voice, not an error.
C10_NoConfigProceeds ==
    \A h \in Handlers :
        LET f == frame[h]
        IN (f.route \in {"chat", "chat_with_config"} /\ f.pc # "idle" /\ f.caller # Anonymous
                /\ QueryFirstOwnedBy(configs, f.caller) = 0) =>
              /\ f.pc # "redirected"
              /\ f.personality = PERSONALITIES[DEFAULT_PERSONALITY]
              /\ f.backstory = <<>>
              /\ f.voice = "default"

\* C10 amended: on the chat route a logged-in caller who owns no configuration
\* gets a turn with the default persona, an empty backstory and the default voice;
\* on chat_with_config a configuration id that is not found gets a redirect.
C10_ChatDefaults ==
    \A h \in Handlers :
        LET f == frame[h]
        IN /\ (f.route = "chat_with_config" /\ f.pc # "idle" /\ f.caller # Anonymous
                    /\ f.config = 0) => f.pc = "redirected"
           /\ (f.route = "chat" /\ f.pc # "idle" /\ f.caller # Anonymous) =>
              /\ QueryFirstOwnedBy(configs, f.caller) = 0 => f.config = 0
              /\ f.config = 0 =>
                    /\ f.pc # "redirected"
                    /\ f.personality =
                          <<"You are a formal and professional assistant. Provide comprehensive and detailed answers.">>
                    /\ f.backstory = <<>>
                    /\ f.voice = "default"

\* a turn of a caller without configuration has returned on the chat route
C10_Witness ==
    \E h \in Handlers :
        LET f == frame[h]
        IN /\ f.route = "chat" /\ f.pc = "returned" /\ f.config = 0
           /\ QueryFirstOwnedBy(configs, f.caller) = 0
           /\ Turns(conversation_history, f.session_id) # <<>>

\* C11: the record appended for a turn holds the user text and the returned answer
\* followed by "\nFollow-up: " and the fixed line, and the returned follow_up is
\* that fixed line whatever the model gave back.
C11_StoredTurn ==
    \A h \in Handlers :
        LET f == frame[h]
            t == Turns(conversation_history, f.session_id)
        IN f.pc = "returned" =>
              /\ Result(f).follow_up = "What else would you like to discuss about this topic?"
              /\ Result(f).answer.type = "str"
              /\ t # <<>>
              /\ t[Len(t)] =
                    [user |-> f.user_text,
                     assistant |-> Result(f).answer.val
                        \o <<"\nFollow-up: ", "What else would you like to discuss about this topic?">>]

\* the second turn of an identifier was stored with the provider's text as answer
C11_Witness ==
    \E h \in Handlers :
        LET f == frame[h]
            t == Turns(conversation_history, f.session_id)
        IN /\ f.pc = "returned" /\ f.kind = "ok_echo" /\ Len(t) = 2
           /\ t[2].assistant = <<"Hi", " ", "there!", "\nFollow-up: ",
                                 "What else would you like to discuss about this topic?">>

\* C12: the sweep never raises, and when it has finished the only entries named
\* response_*.mp3 left in the directory are those whose own deletion failed; a failure
\* for one entry (already missing, not permitted) leaves no deletable entry behind.
C12_SweepDeletes ==
    /\ sweep.pc # "raised"
    /\ sweep.pc = "done" =>
          \A path \in DOMAIN files :
              Matches(Tail(path)) =>
                 /\ Tail(path) \in sweep.failed
                 /\ Tail(path) \in audio_dir.undeletable

\* a finished sweep in which one deletion failed and another matching entry was deleted
C12_Witness ==
    /\ sweep.pc = "done"
    /\ \E bad \in sweep.failed, file \in sweep.listed \ sweep.failed :
          /\ Matches(file)
          /\ file # bad
          /\ Join(file) \notin DOMAIN files
          /\ Join(bad) \in DOMAIN files

\* C13: a run of the sweep on an empty directory, or one that follows a finished run,
\* leaves the directory as it is and does not raise.
C13_SecondRunNoOp ==
    [][(sweep' # sweep /\ (sweep.runs >= 2 \/ (sweep.runs = 1 /\ sweep.pc = "done") \/ DOMAIN files = {}))
          => (files' = files /\ sweep'.pc # "raised")]_vars

\* a second run has finished over a directory that still holds entries, one of them
\* a response_*.mp3 entry that cannot be deleted
C13_Witness ==
    /\ sweep.runs = 2
    /\ sweep.pc = "done"
    /\ \E bad \in sweep.failed : Matches(bad) /\ Join(bad) \in DOMAIN files
    /\ \E file \in sweep.listed : ~Matches(file)

\* every turn of the transcript of s carries the user text of a call made with s
OwnTurnsOnly(s) ==
    \A i \in 1..Len(Turns(conversation_history, s)) :
        \E j \in 1..Len(started[s]) : Turns(conversation_history, s)[i].user = started[s][j]

\* C14: under any interleaving a transcript holds only turns of calls made with its own
\* identifier, and a step of a call for one identifier leaves the transcript of every
\* other identifier as it was.
C14_Isolation ==
    /\ [](\A s \in SessionIds : OwnTurnsOnly(s))
    /\ [][\A h \in Handlers, s \in SessionIds :
             (frame'[h] # frame[h] /\ frame[h].session_id # s /\ frame[h].pc # "idle")
                => Turns(conversation_history', s) = Turns(conversation_history, s)]_vars

\* the second call, made with another identifier, has run to its end while the first
\* call was between its speech synthesis and its append
C14_Witness ==
    /\ frame["h1"].pc = "append"
    /\ frame["h1"].call = 1
    /\ frame["h2"].pc = "returned"
    /\ frame["h2"].call = 2
    /\ frame["h1"].session_id # frame["h2"].session_id
    /\ Turns(conversation_history, frame["h2"].session_id) = <<Turn(frame["h2"])>>
    /\ Turns(conversation_history, frame["h1"].session_id) = <<>>

IsPrefix(s, t) == Len(s) <= Len(t) /\ \A i \in 1..Len(s) : t[i] = s[i]

\* C15: the store is append-only: no step removes an identifier, and the transcript
\* of an identifier before a step is a prefix of its transcript after the step.
C15_AppendOnly ==
    [][\A s \in DOMAIN conversation_history :
          /\ s \in DOMAIN conversation_history'
          /\ IsPrefix(conversation_history[s], conversation_history'[s])]_vars

\* C16: once the language-model call has returned for a status-200 response whose text
\* is the answer alone, or the echoed prompt followed by the answer, the reply is the
\* answer and nothing else, whatever the user text holds.
C16_OnlyAnswer ==
    \A h \in Handlers :
        (frame[h].pc \notin {"idle", "start", "built", "redirected"} /\ frame[h].kind \in {"ok_plain", "ok_echo"})
            => frame[h].ai_response = PyStr(ANSWER)

\* C17: when the default engine raised, text_to_speech has returned (the call goes on,
\* nothing is raised) the path "/static/audio/response_<id>_<time>.mp3" of the file it
\* meant to write; and whenever text_to_speech has returned its result is a path.
C17_GttsFailurePath ==
    \A h \in Handlers :
        LET f == frame[h]
        IN /\ f.gtts_outcome = "error" =>
                 /\ f.pc \in AfterSpeech
                 /\ \E t \in 0..now :
                       f.audio_path = [type |-> "str",
                                       val |-> <<"/", "static/audio/", "response_", f.session_id, "_">>
                                               \o Decimal(t) \o <<".mp3">>]
           /\ f.pc \in AfterSpeech => f.audio_path.type = "str"

\* a call has returned after the default engine raised, and no file is at the path
C17_Witness ==
    \E h \in Handlers :
        /\ frame[h].pc = "returned"
        /\ frame[h].gtts_outcome = "error"
        /\ frame[h].audio_path.type = "str"
        /\ Tail(frame[h].audio_path.val) \notin DOMAIN files
        /\ Result(frame[h]).audio_path = frame[h].audio_path

CallSteps == <<"read", "llm", "tts", "append", "return">>

\* C18: the steps of a call happen in the order read the store, language-model request,
\* text_to_speech call, append, return, none of them twice, and a call that has ended
\* has taken every one of them.
C18_StepsInOrder ==
    \A h \in Handlers :
        /\ IsPrefix(frame[h].steps, CallSteps)
        /\ frame[h].pc \in {"returned", "raised"} => frame[h].steps = CallSteps

\* C19: for each conversation identifier at most one call builds a prompt that holds
\* the greeting instruction, overlapping calls included.
C19_GreetedOnce == \A s \in SessionIds : greeted[s] <= 1


====
